---- MODULE Spec2Model ----
\* A model of crypto_hustler_bot.py: the JSON user store, the request handlers
\* that load it, change one record and write the whole store back, and the
\* clock the cooldowns are measured against.
\*
\* Units.  Time is counted in minutes (MINING_INTERVAL and the quiz cooldown
\* are both whole minutes in the source).  Amounts are counted in units of
\* 0.00005 BTC, the coarsest grid on which the slot cost and every reward
\* range of the source has a point; float rounding is not modelled.
\*
\* Concurrency.  Every request is served by a process of Procs.  A handler is
\* split exactly where it reads or writes USER_DATA_FILE: the lookup of the
\* session (first load), the handler's own load_user_data(), and
\* save_user_data().  Reading the clock and drawing random numbers are local,
\* so they are merged with the neighbouring file access.
EXTENDS Integers, Sequences, FiniteSets, TLC

\* ------------------------------------------------------------------ bounds
MaxUsers == 2
MaxTokens == 3
MaxTime == 11
MaxWrites == 3

\* ------------------------------------------------------- program constants
MINING_INTERVAL == 10
SLOT_MACHINE_COST == 2
QUIZ_COOLDOWN == 1
MINE_LO == 2
MINE_HI == 20
QUIZ_REWARD_HI == 1
JACKPOT_LO == 20
JACKPOT_HI == 40
SMALL_WIN_LO == 1
SMALL_WIN_HI == 2

\* Python's None, as a session token and as a missing header.  os.urandom
\* tokens are modelled as fresh positive integers.
None == 0

\* Two requests may be in progress at once.
Procs == {1, 2}
Emails == {"a", "b"}
Passwords == {"p"}
\* "" is a missing or empty field of the request body; "x" is a password no
\* user registered with.
EmailInputs == Emails \cup {""}
PasswordInputs == Passwords \cup {""}
LoginPasswordInputs == Passwords \cup {"", "x"}
TokenInputs == 0..MaxTokens
symbols == {"A", "B", "C", "D", "7", "X"}
\* answer_index of each entry of QUIZ_QUESTIONS; the stored current_question
\* is modelled by the one field the handler reads back.
QUIZ_QUESTIONS == <<1, 1, 3, 1, 1>>
\* chosen_index of the request body: an integer, or a code for an absent
\* value, for a value that is no number (a string, a float, a list) and for
\* the JSON value true, which Python decodes to the bool True.
ChosenMissing == -1
ChosenNotInt == -2
ChosenTrue == -3
ChosenInputs == {ChosenMissing, ChosenNotInt, ChosenTrue, 1, 3}
\* pay_amount values a webhook payload may carry (the code accepts any float).
PayAmounts == {-2, 2}
FiatAmounts == {0, 5}

VARIABLES
    user_data_file,  \* content of USER_DATA_FILE: the dict, as the sequence of
                     \* its values (keys are "1".."n" in insertion order)
    clock,           \* datetime.now(), in minutes
    next_token,      \* the next value os.urandom yields
    procs,           \* per request process: its position and locals
    writes,          \* the number of requests admitted since the initial
                     \* state that write the file (the model stops admitting
                     \* them at MaxWrites)
    response,        \* the response sent by the latest step, "none" if none
    credited,        \* history: per user id, the sum of the amounts the
                     \* completed operations applied to its balance
    token_state,     \* history: per token, Unissued, Revoked, or Live(u)
                     \* for the user id u it was issued to
    mined_at,        \* history: per user id, <<t>> for the time t of its
                     \* latest successful mine, NoTime if none
    quiz_rewards,    \* history: per user id, rewards paid since the last
                     \* stored question (counted up to 2)
    delivered,       \* history: the finished confirmations already processed
    registered_at    \* history: per token, <<t>> for the time t of the
                     \* registration that issued it, NoTime if none did

vars == <<user_data_file, clock, next_token, procs, writes, response,
          credited, token_state, mined_at, quiz_rewards, delivered,
          registered_at>>

\* ----------------------------------------------------------------- helpers
hash_password(password) == <<"bcrypt", password>>

verify_password(password, hashed_password) == hashed_password = <<"bcrypt", password>>

isoformat(t) == <<"iso", t>>

fromisoformat(s) == s[2]

HasKey(d, k) == k \in DOMAIN d

DelKey(d, k) == [x \in DOMAIN d \ {k} |-> d[x]]

SetKey(d, k, v) == [x \in DOMAIN d \cup {k} |-> IF x = k THEN v ELSE d[x]]

FirstOf(S) == IF S = {} THEN 0 ELSE CHOOSE i \in S : \A j \in S : i <= j

load_user_data == user_data_file

\* The first record, in dict order, whose session_token equals the argument;
\* 0 stands for (None, None).
get_user_by_session_token(users, session_token) ==
    FirstOf({i \in 1..Len(users) : users[i].session_token = session_token})

\* The handlers without their test for a missing header.
NotTokenSkipped(session_token) == FALSE

\* `if not session_token`: the header is missing or empty.
NotToken(session_token) == session_token = None

\* The user a handler acts for after its two authentication checks, 0 if it
\* answers 401.
Authenticate(session_token) ==
    IF NotToken(session_token) THEN 0
    ELSE get_user_by_session_token(load_user_data, session_token)

IdleProc == [pc |-> "idle"]

Unissued == [st |-> "unissued", uid |-> 0]
Revoked == [st |-> "revoked", uid |-> 0]
Live(uid) == [st |-> "live", uid |-> uid]
NoTime == <<>>

Draw(lo, hi) == {lo, hi}

Init ==
    /\ user_data_file = <<>>
    /\ clock = 0
    /\ next_token = 1
    /\ procs = [p \in Procs |-> IdleProc]
    /\ writes = 0
    /\ response = "none"
    /\ credited = [u \in 1..MaxUsers |-> 0]
    /\ token_state = [t \in 1..MaxTokens |-> Unissued]
    /\ mined_at = [u \in 1..MaxUsers |-> NoTime]
    /\ quiz_rewards = [u \in 1..MaxUsers |-> 0]
    /\ delivered = {}
    /\ registered_at = [t \in 1..MaxTokens |-> NoTime]

Ghosts == <<credited, token_state, mined_at, quiz_rewards, delivered, registered_at>>

\* A step that answers at once and leaves everything else alone.
Reply(tag) ==
    /\ response' = tag
    /\ UNCHANGED <<user_data_file, clock, next_token, procs, writes, Ghosts>>

\* A step that moves process p on without answering or writing the file.
Goto(p, next) ==
    /\ procs' = [procs EXCEPT ![p] = next]
    /\ response' = "none"
    /\ UNCHANGED <<user_data_file, clock, next_token, writes, Ghosts>>

\* A step that leaves process p with a changed local dict it will save.
GotoSave(p, next) ==
    /\ writes < MaxWrites
    /\ writes' = writes + 1
    /\ procs' = [procs EXCEPT ![p] = next]
    /\ response' = "none"
    /\ UNCHANGED <<user_data_file, clock, next_token, Ghosts>>

\* A step of process p that answers and ends the request without writing.
Abort(p, tag) ==
    /\ procs' = [procs EXCEPT ![p] = IdleProc]
    /\ response' = tag
    /\ UNCHANGED <<user_data_file, clock, next_token, writes, Ghosts>>

Tick ==
    /\ clock < MaxTime
    /\ clock' = clock + 1
    /\ response' = "none"
    /\ UNCHANGED <<user_data_file, next_token, procs, writes, Ghosts>>
\* ------------------------------------------------------------ registration
\* A new record whose mining interval has already run out.
NewUserEligible(email, password, token, now) ==
    [email |-> email,
     password |-> hash_password(password),
     balance |-> 0,
     session_token |-> token,
     last_passive_mine |-> isoformat(now - MINING_INTERVAL),
     next_quiz_attempt |-> isoformat(now),
     slot_machine_unlocked |-> FALSE,
     first_deposit |-> FALSE]

\* Lines 159-168: the record register_user creates.
NewUser(email, password, token, now) ==
    [email |-> email,
     password |-> hash_password(password),
     balance |-> 0,
     session_token |-> token,
     last_passive_mine |-> isoformat(now),
     next_quiz_attempt |-> isoformat(now),
     slot_machine_unlocked |-> FALSE,
     first_deposit |-> FALSE]

\* register_user without its loop over the registered emails.
EmailTakenSkipped(users, email) == FALSE

EmailTaken(users, email) == \E i \in 1..Len(users) : users[i].email = email

\* register_user up to the point where the new record is in the local dict.
RegisterLoad(p, email, password) ==
    /\ procs[p].pc = "idle"
    /\ IF email = "" \/ password = "" THEN Reply("ValidationError")
       ELSE LET users == load_user_data IN
            IF EmailTaken(users, email) THEN Reply("DuplicateResource")
            ELSE /\ Len(users) < MaxUsers
                 /\ next_token <= MaxTokens
                 /\ writes < MaxWrites
                 /\ writes' = writes + 1
                 /\ LET user_id == Len(users) + 1 IN
                    procs' = [procs EXCEPT ![p] =
                        [pc |-> "register_save",
                         uid |-> user_id,
                         token |-> next_token,
                         now |-> clock,
                         users |-> Append(users, NewUser(email, password, next_token, clock))]]
                 /\ next_token' = next_token + 1
                 /\ response' = "none"
                 /\ UNCHANGED <<user_data_file, clock, Ghosts>>

RegisterSave(p) ==
    /\ procs[p].pc = "register_save"
    /\ user_data_file' = procs[p].users
    /\ procs' = [procs EXCEPT ![p] = IdleProc]
    /\ response' = "Registered"
    /\ token_state' = [token_state EXCEPT ![procs[p].token] = Live(procs[p].uid)]
    /\ credited' = [credited EXCEPT ![procs[p].uid] = 0]
    /\ mined_at' = [mined_at EXCEPT ![procs[p].uid] = NoTime]
    /\ quiz_rewards' = [quiz_rewards EXCEPT ![procs[p].uid] = 0]
    /\ registered_at' = [registered_at EXCEPT ![procs[p].token] = <<procs[p].now>>]
    /\ UNCHANGED <<clock, next_token, writes, delivered>>

\* ------------------------------------------------------------ login, logout
\* The record login_user's loop stops at: the first with this email whose
\* password verifies; 0 if the loop runs out.
LoginMatch(users, email, password) ==
    FirstOf({i \in 1..Len(users) :
                /\ users[i].email = email
                /\ verify_password(password, users[i].password)})

LoginLoad(p, email, password) ==
    /\ procs[p].pc = "idle"
    /\ IF email = "" \/ password = "" THEN Reply("ValidationError")
       ELSE LET users == load_user_data
                uid == LoginMatch(users, email, password)
            IN  IF uid = 0 THEN Reply("InvalidCredentials")
                ELSE /\ next_token <= MaxTokens
                     /\ writes < MaxWrites
                     /\ writes' = writes + 1
                     /\ procs' = [procs EXCEPT ![p] =
                            [pc |-> "login_save",
                             uid |-> uid,
                             token |-> next_token,
                             users |-> [users EXCEPT ![uid].session_token = next_token]]]
                     /\ next_token' = next_token + 1
                     /\ response' = "none"
                     /\ UNCHANGED <<user_data_file, clock, Ghosts>>

\* History: a successful login supersedes every token issued to that user.
Supersede(uid, token) ==
    [t \in 1..MaxTokens |->
        IF t = token THEN Live(uid)
        ELSE IF token_state[t] = Live(uid) THEN Revoked
        ELSE token_state[t]]

LoginSave(p) ==
    /\ procs[p].pc = "login_save"
    /\ user_data_file' = procs[p].users
    /\ procs' = [procs EXCEPT ![p] = IdleProc]
    /\ response' = "LoggedIn"
    /\ token_state' = Supersede(procs[p].uid, procs[p].token)
    /\ UNCHANGED <<clock, next_token, writes, credited, mined_at, quiz_rewards, delivered,
                 registered_at>>

\* The record logout_user's loop stops at, 0 if none.
LogoutMatch(users, session_token) ==
    FirstOf({i \in 1..Len(users) : users[i].session_token = session_token})

LogoutLoad(p, session_token) ==
    /\ procs[p].pc = "idle"
    /\ IF NotToken(session_token) THEN Reply("AuthenticationRequired")
       ELSE LET users == load_user_data
                uid == LogoutMatch(users, session_token)
            IN  IF uid = 0 THEN Reply("AuthenticationRequired")
                ELSE GotoSave(p, [pc |-> "logout_save",
                              uid |-> uid,
                              token |-> session_token,
                              users |-> [users EXCEPT ![uid].session_token = None]])

LogoutSave(p) ==
    /\ procs[p].pc = "logout_save"
    /\ user_data_file' = procs[p].users
    /\ procs' = [procs EXCEPT ![p] = IdleProc]
    /\ response' = "LoggedOut"
    /\ token_state' = [token_state EXCEPT ![procs[p].token] = Revoked]
    /\ UNCHANGED <<clock, next_token, writes, credited, mined_at, quiz_rewards, delivered,
                 registered_at>>

\* ------------------------------------------------------------------ balance
balance_command(p, session_token) ==
    /\ procs[p].pc = "idle"
    /\ IF Authenticate(session_token) = 0 THEN Reply("AuthenticationRequired")
       ELSE Reply("Balance")

\* ------------------------------------------------------------------- mining
\* MineCredit as it would be if mining went through the first-credit bonus.
MineCreditBonus(rec, mined_amount, now) ==
    IF rec.first_deposit
    THEN [rec EXCEPT !.balance = @ + mined_amount,
                     !.last_passive_mine = isoformat(now)]
    ELSE [rec EXCEPT !.balance = @ + mined_amount * 2,
                     !.first_deposit = TRUE,
                     !.last_passive_mine = isoformat(now)]

\* Lines 340-342: the credit of a successful mine.
MineCredit(rec, mined_amount, now) ==
    [rec EXCEPT !.balance = @ + mined_amount,
                !.last_passive_mine = isoformat(now)]

\* The session lookup, the clock and the cooldown test (lines 323-335).
MineAuth(p, session_token) ==
    /\ procs[p].pc = "idle"
    /\ LET uid == Authenticate(session_token) IN
       IF uid = 0 THEN Reply("AuthenticationRequired")
       ELSE LET user_data == load_user_data[uid]
                last_mine_time == fromisoformat(user_data.last_passive_mine)
                now == clock
            IN  IF now - last_mine_time >= MINING_INTERVAL
                THEN Goto(p, [pc |-> "mine_load", uid |-> uid, now |-> now])
                ELSE Reply("OnCooldown")

\* The handler's own load and its changes to the local dict (lines 337-342).
MineLoad(p) ==
    /\ procs[p].pc = "mine_load"
    /\ LET users == load_user_data
           uid == procs[p].uid
       IN  IF uid > Len(users) THEN Abort(p, "InternalError")
           ELSE \E mined_amount \in Draw(MINE_LO, MINE_HI) :
                /\ GotoSave(p, [pc |-> "mine_save",
                            uid |-> uid,
                            now |-> procs[p].now,
                            amount |-> mined_amount,
                            users |-> [users EXCEPT ![uid] =
                                          MineCredit(@, mined_amount, procs[p].now)]])

MineSave(p) ==
    /\ procs[p].pc = "mine_save"
    /\ user_data_file' = procs[p].users
    /\ procs' = [procs EXCEPT ![p] = IdleProc]
    /\ response' = "Mined"
    /\ credited' = [credited EXCEPT ![procs[p].uid] = @ + procs[p].amount]
    /\ mined_at' = [mined_at EXCEPT ![procs[p].uid] = <<procs[p].now>>]
    /\ UNCHANGED <<clock, next_token, writes, token_state, quiz_rewards, delivered,
                 registered_at>>
\* --------------------------------------------------------------------- quiz
get_random_quiz_question == {QUIZ_QUESTIONS[i] : i \in 1..Len(QUIZ_QUESTIONS)}

\* Lines 459-461: a correct answer.
QuizCredit(rec, reward) ==
    DelKey([rec EXCEPT !.balance = @ + reward], "current_question")

\* Lines 470-475: an incorrect answer.
QuizPenalty(rec, now) ==
    DelKey([rec EXCEPT !.next_quiz_attempt = isoformat(now + QUIZ_COOLDOWN)],
           "current_question")

\* `chosen_index is None or not isinstance(chosen_index, int)`; bool is a
\* subclass of int, so True passes.
InvalidIndex(chosen_index) ==
    chosen_index = ChosenMissing \/ chosen_index = ChosenNotInt

\* What `chosen_index == answer_index` compares: True == 1 in Python.
IndexValue(chosen_index) ==
    IF chosen_index = ChosenTrue THEN 1 ELSE chosen_index

\* The session lookup of quiz_command (lines 412-418); user_data is kept for
\* the one field the GET branch reads from it.
QuizAuth(p, session_token, method, chosen_index) ==
    /\ procs[p].pc = "idle"
    /\ LET uid == Authenticate(session_token) IN
       IF uid = 0 THEN Reply("AuthenticationRequired")
       ELSE Goto(p, [pc |-> "quiz_load",
                     uid |-> uid,
                     method |-> method,
                     chosen_index |-> IF method = "POST" THEN chosen_index ELSE ChosenMissing,
                     next_quiz_attempt |-> load_user_data[uid].next_quiz_attempt])

\* GET: load, cooldown test against user_data, store a question (lines 420-434).
QuizGetLoad(p) ==
    /\ procs[p].pc = "quiz_load"
    /\ procs[p].method = "GET"
    /\ LET users == load_user_data
           uid == procs[p].uid
           next_attempt_time == fromisoformat(procs[p].next_quiz_attempt)
           now == clock
       IN  IF now < next_attempt_time THEN Abort(p, "OnCooldown")
           ELSE IF uid > Len(users) THEN Abort(p, "InternalError")
           ELSE \E question_data \in get_random_quiz_question :
                GotoSave(p, [pc |-> "quiz_save",
                         uid |-> uid,
                         now |-> now,
                         resp |-> "Question",
                         amount |-> 0,
                         users |-> [users EXCEPT ![uid] =
                                       SetKey(@, "current_question", question_data)]])

\* POST: load, the checks and the resolution (lines 420, 444-475).
QuizPostLoad(p) ==
    /\ procs[p].pc = "quiz_load"
    /\ procs[p].method = "POST"
    /\ LET users == load_user_data
           uid == procs[p].uid
           chosen_index == procs[p].chosen_index
           now == clock
       IN  IF uid > Len(users) THEN Abort(p, "InternalError")
           ELSE IF ~HasKey(users[uid], "current_question")
                THEN Abort(p, "NoActiveQuestion")
           ELSE IF InvalidIndex(chosen_index) THEN Abort(p, "InvalidInput")
           ELSE IF IndexValue(chosen_index) = users[uid].current_question
                THEN \E reward \in {QUIZ_REWARD_HI} :
                     /\ GotoSave(p, [pc |-> "quiz_save",
                                 uid |-> uid,
                                 now |-> now,
                                 resp |-> "Correct",
                                 amount |-> reward,
                                 users |-> [users EXCEPT ![uid] = QuizCredit(@, reward)]])
           ELSE GotoSave(p, [pc |-> "quiz_save",
                         uid |-> uid,
                         now |-> now,
                         resp |-> "Incorrect",
                         amount |-> 0,
                         users |-> [users EXCEPT ![uid] = QuizPenalty(@, now)]])

QuizSave(p) ==
    /\ procs[p].pc = "quiz_save"
    /\ user_data_file' = procs[p].users
    /\ procs' = [procs EXCEPT ![p] = IdleProc]
    /\ response' = procs[p].resp
    /\ credited' = [credited EXCEPT ![procs[p].uid] = @ + procs[p].amount]
    /\ quiz_rewards' = [quiz_rewards EXCEPT ![procs[p].uid] =
            IF procs[p].resp = "Question" THEN 0
            ELSE IF procs[p].resp = "Correct" /\ @ < 2 THEN @ + 1
            ELSE @]
    /\ UNCHANGED <<clock, next_token, writes, token_state, mined_at, delivered,
                 registered_at>>

\* -------------------------------------------------------------------- slots
Reels == symbols \X symbols \X symbols

\* The outcome test with only neighbouring reels compared.
SlotOutcomeAdjacent(reel_results) ==
    IF reel_results[1] = reel_results[2] /\ reel_results[2] = reel_results[3]
    THEN "Jackpot"
    ELSE IF \/ reel_results[1] = reel_results[2]
            \/ reel_results[2] = reel_results[3]
    THEN "SmallWin"
    ELSE "Loss"

\* The outcome test of lines 528-540.
SlotOutcome(reel_results) ==
    IF reel_results[1] = reel_results[2] /\ reel_results[2] = reel_results[3]
    THEN "Jackpot"
    ELSE IF \/ reel_results[1] = reel_results[2]
            \/ reel_results[2] = reel_results[3]
            \/ reel_results[1] = reel_results[3]
    THEN "SmallWin"
    ELSE "Loss"

\* The prizes an outcome may draw.
SlotPrizes(outcome) ==
    IF outcome = "Jackpot" THEN Draw(JACKPOT_LO, JACKPOT_HI)
    ELSE IF outcome = "SmallWin" THEN Draw(SMALL_WIN_LO, SMALL_WIN_HI)
    ELSE {0}

\* Line 522.
SlotDebit(rec) == [rec EXCEPT !.balance = @ - SLOT_MACHINE_COST]

\* Lines 531 and 536.
SlotCredit(rec, prize) == [rec EXCEPT !.balance = @ + prize]

\* The session lookup and the balance test on user_data (lines 507-517).
SlotsAuth(p, session_token) ==
    /\ procs[p].pc = "idle"
    /\ LET uid == Authenticate(session_token) IN
       IF uid = 0 THEN Reply("AuthenticationRequired")
       ELSE IF load_user_data[uid].balance < SLOT_MACHINE_COST
            THEN Reply("InsufficientFunds")
       ELSE Goto(p, [pc |-> "slots_load", uid |-> uid])

\* Lines 521-540 for one draw of the reels and of the prize: the handler's
\* own load, the debit and the credit of the prize.
Spin(p, reel_results, prize) ==
    LET users == load_user_data
        uid == procs[p].uid
    IN  GotoSave(p, [pc |-> "slots_save",
                     uid |-> uid,
                     resp |-> SlotOutcome(reel_results),
                     prize |-> prize,
                     amount |-> prize - SLOT_MACHINE_COST,
                     users |-> [users EXCEPT ![uid] =
                                   IF prize = 0 THEN SlotDebit(@)
                                   ELSE SlotCredit(SlotDebit(@), prize)]])

\* The handler's own load, the debit, the spin and the prize (lines 519-540).
SlotsLoad(p) ==
    /\ procs[p].pc = "slots_load"
    /\ IF procs[p].uid > Len(load_user_data) THEN Abort(p, "InternalError")
       ELSE \E reel_results \in Reels :
            \E prize \in SlotPrizes(SlotOutcome(reel_results)) :
                Spin(p, reel_results, prize)

SlotsSave(p) ==
    /\ procs[p].pc = "slots_save"
    /\ user_data_file' = procs[p].users
    /\ procs' = [procs EXCEPT ![p] = IdleProc]
    /\ response' = procs[p].resp
    /\ credited' = [credited EXCEPT ![procs[p].uid] = @ + procs[p].amount]
    /\ UNCHANGED <<clock, next_token, writes, token_state, mined_at, quiz_rewards, delivered,
                 registered_at>>

\* ------------------------------------------------------------------ deposit
\* deposit_command; the provider either returns an invoice_url or does not.
deposit_command(p, session_token, amount) ==
    /\ procs[p].pc = "idle"
    /\ IF Authenticate(session_token) = 0 THEN Reply("AuthenticationRequired")
       ELSE IF amount <= 0 THEN Reply("ValidationError")
       ELSE \E invoice_url \in BOOLEAN :
            Reply(IF invoice_url THEN "Invoice" ELSE "ExternalServiceFailure")

\* ------------------------------------------------------------------ webhook
\* A webhook payload: the keys it carries and their values.
Payloads ==
    [keys : SUBSET {"order_id", "payment_status", "pay_amount"},
     order_id : 1..(MaxUsers + 1),
     payment_status : {"finished", "waiting"},
     pay_amount : PayAmounts]

\* update_user_balance's change to the record (lines 78-84).
update_user_balance(rec, amount) ==
    IF ~HasKey(rec, "first_deposit")
    THEN SetKey([rec EXCEPT !.balance = @ + amount * 2], "first_deposit", TRUE)
    ELSE [rec EXCEPT !.balance = @ + amount]

\* The status test with every status taken for "finished".
FinishedAlways(data) == TRUE

\* Line 129: `data["payment_status"] == "finished"`.
Finished(data) == data.payment_status = "finished"

\* nowpayments_webhook up to update_user_balance's load and change.
WebhookLoad(p, data) ==
    /\ procs[p].pc = "idle"
    /\ IF \/ data.keys = {}
          \/ "order_id" \notin data.keys
          \/ "payment_status" \notin data.keys
       THEN Reply("InvalidData")
       ELSE IF "pay_amount" \notin data.keys THEN Reply("InternalError")
       ELSE IF ~Finished(data) THEN Reply("Pending")
       ELSE LET users == load_user_data
                user_id == data.order_id
                amount == data.pay_amount
            IN  IF user_id > Len(users) THEN Reply("BalanceUpdated")
                ELSE GotoSave(p, [pc |-> "webhook_save",
                                 uid |-> user_id,
                                 amount |-> amount,
                                 applied |-> update_user_balance(users[user_id], amount).balance
                                             - users[user_id].balance,
                                 users |-> [users EXCEPT ![user_id] =
                                               update_user_balance(@, amount)]])

WebhookSave(p) ==
    /\ procs[p].pc = "webhook_save"
    /\ user_data_file' = procs[p].users
    /\ procs' = [procs EXCEPT ![p] = IdleProc]
    /\ response' = "BalanceUpdated"
    /\ credited' = [credited EXCEPT ![procs[p].uid] =
            @ + procs[p].applied]
    /\ delivered' = delivered \cup {<<procs[p].uid, procs[p].amount>>}
    /\ UNCHANGED <<clock, next_token, writes, token_state, mined_at, quiz_rewards,
                 registered_at>>

\* ---------------------------------------------------------------- the system
Next ==
    \/ Tick
    \/ \E p \in Procs :
        \/ \E email \in EmailInputs, password \in PasswordInputs :
              RegisterLoad(p, email, password)
        \/ RegisterSave(p)
        \/ \E email \in EmailInputs, password \in LoginPasswordInputs :
              LoginLoad(p, email, password)
        \/ LoginSave(p)
        \/ \E session_token \in TokenInputs : LogoutLoad(p, session_token)
        \/ LogoutSave(p)
        \/ \E session_token \in TokenInputs : balance_command(p, session_token)
        \/ \E session_token \in TokenInputs : MineAuth(p, session_token)
        \/ MineLoad(p)
        \/ MineSave(p)
        \/ \E session_token \in TokenInputs :
              QuizAuth(p, session_token, "GET", ChosenMissing)
        \/ \E session_token \in TokenInputs, chosen_index \in ChosenInputs :
              QuizAuth(p, session_token, "POST", chosen_index)
        \/ QuizGetLoad(p)
        \/ QuizPostLoad(p)
        \/ QuizSave(p)
        \/ \E session_token \in TokenInputs : SlotsAuth(p, session_token)
        \/ SlotsLoad(p)
        \/ SlotsSave(p)
        \/ \E session_token \in TokenInputs, amount \in FiatAmounts :
              deposit_command(p, session_token, amount)
        \/ \E data \in Payloads : WebhookLoad(p, data)
        \/ WebhookSave(p)

Spec == Init /\ [][Next]_vars
\* ------------------------------------------------- parts of the system
\* The state Spec reaches when "a" has registered with password "p" at time 0
\* and nothing else has happened until the mining interval is over.  The
\* specifications below start there; their steps are steps of Next.
InitRegistered ==
    /\ user_data_file = <<NewUser("a", "p", 1, 0)>>
    /\ clock = MINING_INTERVAL
    /\ next_token = 2
    /\ procs = [p \in Procs |-> IdleProc]
    /\ writes = 0
    /\ response = "none"
    /\ credited = [u \in 1..MaxUsers |-> 0]
    /\ token_state = [t \in 1..MaxTokens |-> IF t = 1 THEN Live(1) ELSE Unissued]
    /\ mined_at = [u \in 1..MaxUsers |-> NoTime]
    /\ quiz_rewards = [u \in 1..MaxUsers |-> 0]
    /\ delivered = {}
    /\ registered_at = [t \in 1..MaxTokens |-> IF t = 1 THEN <<0>> ELSE NoTime]

\* The requests that move money: mining, slots and the payment webhook.
NextLedger ==
    \/ Tick
    \/ \E p \in Procs :
        \/ \E session_token \in TokenInputs : MineAuth(p, session_token)
        \/ MineLoad(p)
        \/ MineSave(p)
        \/ \E session_token \in TokenInputs : SlotsAuth(p, session_token)
        \/ SlotsLoad(p)
        \/ SlotsSave(p)
        \/ \E data \in Payloads : WebhookLoad(p, data)
        \/ WebhookSave(p)

SpecLedger == InitRegistered /\ [][NextLedger]_vars

\* The quiz requests.
NextQuiz ==
    \/ Tick
    \/ \E p \in Procs :
        \/ \E session_token \in TokenInputs :
              QuizAuth(p, session_token, "GET", ChosenMissing)
        \/ \E session_token \in TokenInputs, chosen_index \in ChosenInputs :
              QuizAuth(p, session_token, "POST", chosen_index)
        \/ QuizGetLoad(p)
        \/ QuizPostLoad(p)
        \/ QuizSave(p)

SpecQuiz == InitRegistered /\ [][NextQuiz]_vars

\* The three reward paths together, within one minute.
NextRewards ==
    \E p \in Procs :
        \/ \E session_token \in TokenInputs : MineAuth(p, session_token)
        \/ MineLoad(p)
        \/ MineSave(p)
        \/ \E session_token \in TokenInputs : SlotsAuth(p, session_token)
        \/ SlotsLoad(p)
        \/ SlotsSave(p)
        \/ \E session_token \in TokenInputs :
              QuizAuth(p, session_token, "GET", ChosenMissing)
        \/ \E session_token \in TokenInputs, chosen_index \in ChosenInputs :
              QuizAuth(p, session_token, "POST", chosen_index)
        \/ QuizGetLoad(p)
        \/ QuizPostLoad(p)
        \/ QuizSave(p)

SpecRewards == InitRegistered /\ [][NextRewards]_vars

\* The state SpecLedger reaches from InitRegistered when one finished deposit
\* of exactly the slot cost has been processed.
InitFunded ==
    /\ user_data_file = <<[NewUser("a", "p", 1, 0) EXCEPT !.balance = SLOT_MACHINE_COST]>>
    /\ clock = MINING_INTERVAL
    /\ next_token = 2
    /\ procs = [p \in Procs |-> IdleProc]
    /\ writes = 0
    /\ response = "BalanceUpdated"
    /\ credited = [u \in 1..MaxUsers |-> IF u = 1 THEN SLOT_MACHINE_COST ELSE 0]
    /\ token_state = [t \in 1..MaxTokens |-> IF t = 1 THEN Live(1) ELSE Unissued]
    /\ mined_at = [u \in 1..MaxUsers |-> NoTime]
    /\ quiz_rewards = [u \in 1..MaxUsers |-> 0]
    /\ delivered = {<<1, SLOT_MACHINE_COST>>}
    /\ registered_at = [t \in 1..MaxTokens |-> IF t = 1 THEN <<0>> ELSE NoTime]

\* The spins of a funded user, within one minute.
NextSlots ==
    \E p \in Procs :
        \/ \E session_token \in TokenInputs : SlotsAuth(p, session_token)
        \/ SlotsLoad(p)
        \/ SlotsSave(p)

SpecSlots == InitFunded /\ [][NextSlots]_vars

\* The deposit path: invoice requests and payment confirmations.
NextDeposit ==
    \E p \in Procs :
        \/ \E session_token \in TokenInputs, amount \in FiatAmounts :
              deposit_command(p, session_token, amount)
        \/ \E data \in Payloads : WebhookLoad(p, data)
        \/ WebhookSave(p)

SpecDeposit == InitRegistered /\ [][NextDeposit]_vars

\* Accounts and sessions: registration, login, logout and the session check
\* of every authenticated request, from the empty store at a fixed time.
NextSession ==
    \E p \in Procs :
        \/ \E email \in EmailInputs, password \in PasswordInputs :
              RegisterLoad(p, email, password)
        \/ RegisterSave(p)
        \/ \E email \in EmailInputs, password \in LoginPasswordInputs :
              LoginLoad(p, email, password)
        \/ LoginSave(p)
        \/ \E session_token \in TokenInputs : LogoutLoad(p, session_token)
        \/ LogoutSave(p)
        \/ \E session_token \in TokenInputs : balance_command(p, session_token)
        \/ \E session_token \in TokenInputs : MineAuth(p, session_token)
        \/ \E session_token \in TokenInputs : SlotsAuth(p, session_token)
        \/ \E session_token \in TokenInputs :
              QuizAuth(p, session_token, "GET", ChosenMissing)
        \/ QuizGetLoad(p)
        \/ QuizSave(p)
        \/ \E session_token \in TokenInputs, amount \in FiatAmounts :
              deposit_command(p, session_token, amount)

SpecSession == Init /\ [][NextSession]_vars
\* A new user's first requests: the registration of "a", then mining and
\* quiz fetches as time passes.
NextNewUser ==
    \/ Tick
    \/ \E p \in Procs :
        \/ RegisterLoad(p, "a", "p")
        \/ RegisterSave(p)
        \/ \E session_token \in TokenInputs : MineAuth(p, session_token)
        \/ MineLoad(p)
        \/ MineSave(p)
        \/ \E session_token \in TokenInputs :
              QuizAuth(p, session_token, "GET", ChosenMissing)
        \/ QuizGetLoad(p)
        \/ QuizSave(p)

SpecNewUser == Init /\ [][NextNewUser]_vars
\* ================================================================ claims
Abs(x) == IF x < 0 THEN -x ELSE x

AllIdle == \A p \in Procs : procs[p].pc = "idle"

UserIds == 1..Len(user_data_file)

\* Process p completes its request by writing the file in this step.
Saves(p, pc) == procs[p].pc = pc /\ procs'[p].pc = "idle"

\* C1: in every reachable state every user's balance is >= 0 (stated here
\* for runs in which every processed deposit was positive).
C1_BalanceNonNegative ==
    (/\ \A d \in delivered : d[2] > 0
     /\ \A p \in Procs : procs[p].pc = "webhook_save" => procs[p].amount > 0)
    => \A u \in UserIds : user_data_file[u].balance >= 0

\* C2: when the requests that ran, however interleaved, have all completed,
\* each balance is the initial balance (0) plus the sum of the amounts the
\* completed operations applied: no update is lost.
C2_NoLostUpdates ==
    AllIdle => \A u \in UserIds : user_data_file[u].balance = credited[u]

\* C3: a finished deposit of amount a changes the balance by 2*a and sets the
\* first-deposit flag if the flag was false, and by a otherwise.
C3_FirstDepositDoubled ==
    [][\A p \in Procs : Saves(p, "webhook_save") =>
        LET u == procs[p].uid
            a == procs[p].amount
        IN  u \in UserIds =>
            IF user_data_file[u].first_deposit
            THEN user_data_file'[u].balance = user_data_file[u].balance + a
            ELSE /\ user_data_file'[u].balance = user_data_file[u].balance + 2 * a
                 /\ user_data_file'[u].first_deposit]_vars

\* The gross reward of the request process p completes, 0 if it pays none.
RewardPaid(p) ==
    IF procs[p].pc = "mine_save" THEN procs[p].amount
    ELSE IF procs[p].pc = "quiz_save" /\ procs[p].resp = "Correct" THEN procs[p].amount
    ELSE IF procs[p].pc = "slots_save" THEN procs[p].prize
    ELSE 0

PreparesReward(p) ==
    /\ procs[p].pc \in {"mine_load", "quiz_load", "slots_load"}
    /\ procs'[p].pc \in {"mine_save", "quiz_save", "slots_save"}
    /\ procs'[p].amount # 0

C5_MinesSpaced ==
    [][\A p \in Procs : Saves(p, "mine_save") =>
        LET u == procs[p].uid IN
        \/ mined_at[u] = NoTime
        \/ Abs(procs[p].now - mined_at[u][1]) >= MINING_INTERVAL]_vars

\* C6: each stored question yields at most one reward: once it is resolved,
\* a further answer without a new fetch is not rewarded.
C6_OneRewardPerQuestion ==
    \A u \in 1..MaxUsers : quiz_rewards[u] <= 1

\* C7: an incorrect answer at time t sets next_quiz_attempt to t + 1 minute,
\* and no question is stored for a fetch made before the stored deadline.
C7_CooldownEnforced ==
    [][\A p \in Procs :
        /\ (procs[p].pc = "quiz_load" /\ procs'[p].pc = "quiz_save"
              /\ procs'[p].resp = "Incorrect") =>
            procs'[p].users[procs[p].uid].next_quiz_attempt
                = isoformat(clock + QUIZ_COOLDOWN)
        /\ (procs[p].pc = "quiz_load" /\ procs'[p].pc = "quiz_save"
              /\ procs'[p].resp = "Question") =>
            clock >= fromisoformat(user_data_file[procs[p].uid].next_quiz_attempt)]_vars

\* C8: a token superseded by a later login of its user, or invalidated by a
\* logout, is no record's session token ever after.
C8_RevokedTokenDead ==
    \A t \in 1..MaxTokens : token_state[t] = Revoked =>
        \A u \in UserIds : user_data_file[u].session_token # t

\* The token is some record's current session token.
Resolves(session_token) ==
    /\ session_token # None
    /\ \E u \in UserIds : user_data_file[u].session_token = session_token

\* A request of one of the authenticated handlers, made by p with this token.
AuthenticatedRequest(p, session_token) ==
    \/ LogoutLoad(p, session_token)
    \/ balance_command(p, session_token)
    \/ MineAuth(p, session_token)
    \/ SlotsAuth(p, session_token)
    \/ \E method \in {"GET", "POST"}, chosen_index \in ChosenInputs :
          QuizAuth(p, session_token, method, chosen_index)
    \/ \E amount \in FiatAmounts : deposit_command(p, session_token, amount)

\* C9: a balance, mine, quiz, slot, deposit or logout request with a missing
\* token, or one that is no record's session token, is answered with an
\* authentication error, starts nothing and leaves the store unchanged.
C9_InvalidTokenRejected ==
    [][\A p \in Procs, session_token \in TokenInputs :
        (~Resolves(session_token) /\ AuthenticatedRequest(p, session_token)) =>
            /\ response' = "AuthenticationRequired"
            /\ user_data_file' = user_data_file
            /\ procs' = procs]_vars

C9_Witness ==
    /\ response = "AuthenticationRequired"
    /\ \E u \in UserIds : user_data_file[u].session_token = None
    /\ \E t \in 1..MaxTokens : token_state[t] = Revoked

\* C10: a finished confirmation with the order id and amount of one already
\* processed leaves the balance as it is.
C10_DuplicateIsNoOp ==
    [][\A p \in Procs :
        (Saves(p, "webhook_save") /\ <<procs[p].uid, procs[p].amount>> \in delivered) =>
            user_data_file'[procs[p].uid].balance
                = user_data_file[procs[p].uid].balance]_vars

\* The payload lacks one of its three fields, or names no user record.
InvalidConfirmation(data) ==
    \/ {"order_id", "payment_status", "pay_amount"} \ data.keys # {}
    \/ data.order_id > Len(user_data_file)

\* C11: a payment confirmation whose order id matches no user record, or that
\* lacks order id, status or amount, is rejected (the 400 of the handler; the
\* 500 of an unhandled KeyError is counted as a rejection too), never answered
\* as a credit or as a pending payment, and leaves the user store unchanged.
C11_InvalidConfirmationRejected ==
    [][\A p \in Procs, data \in Payloads :
        (InvalidConfirmation(data) /\ WebhookLoad(p, data)) =>
            /\ response' \in {"InvalidData", "InternalError"}
            /\ user_data_file' = user_data_file]_vars

\* Every deposit processed or in progress has a positive amount.
DepositsPositive ==
    /\ \A d \in delivered : d[2] > 0
    /\ \A p \in Procs : procs[p].pc = "webhook_save" => procs[p].amount > 0

\* C12: a spin is debited only if the balance in the store at the moment of
\* the debit covers the cost (a balance equal to the cost is enough), and a
\* spin answered InsufficientFunds found a balance below the cost and left
\* the store unchanged (stated for runs in which every deposit is positive).
C12_InsufficientFundsIff ==
    [][DepositsPositive =>
       \A p \in Procs :
        /\ (procs[p].pc = "slots_load" /\ procs'[p].pc = "slots_save") =>
              user_data_file[procs[p].uid].balance >= SLOT_MACHINE_COST
        /\ \A session_token \in TokenInputs :
              (SlotsAuth(p, session_token) /\ response' = "InsufficientFunds") =>
                  /\ user_data_file[Authenticate(session_token)].balance
                        < SLOT_MACHINE_COST
                  /\ user_data_file' = user_data_file]_vars

\* C13: for every triple of symbols an accepted spin resolves by priority -
\* three equal: a jackpot prize; else two equal, whichever two: a small win;
\* else nothing - and the balance written is the balance loaded, less the
\* cost once, plus the prize; the save writes that record.
C13_SpinResolved ==
    [][\A p \in Procs :
        /\ (procs[p].pc = "slots_load" /\ procs'[p].pc = "slots_save") =>
            \A reel_results \in Reels :
                (/\ SlotOutcome(reel_results) = procs'[p].resp
                 /\ Spin(p, reel_results, procs'[p].prize)) =>
                LET u == procs[p].uid
                    prize == procs'[p].prize
                    kinds == Cardinality({reel_results[1], reel_results[2],
                                          reel_results[3]})
                IN  /\ kinds = 1 => /\ procs'[p].resp = "Jackpot"
                                    /\ prize \in JACKPOT_LO..JACKPOT_HI
                    /\ kinds = 2 => /\ procs'[p].resp = "SmallWin"
                                    /\ prize \in SMALL_WIN_LO..SMALL_WIN_HI
                    /\ kinds = 3 => /\ procs'[p].resp = "Loss"
                                    /\ prize = 0
                    /\ procs'[p].users[u].balance
                         = user_data_file[u].balance - SLOT_MACHINE_COST + prize
        /\ Saves(p, "slots_save") => user_data_file' = procs[p].users]_vars

\* A spin on a balance equal to the cost has paid the lower jackpot prize.
C13_Witness ==
    /\ response = "Jackpot"
    /\ user_data_file[1].balance = JACKPOT_LO
    /\ credited[1] = JACKPOT_LO

\* No two records of the store have the same email.
EmailsUnique ==
    \A i, j \in UserIds :
        user_data_file[i].email = user_data_file[j].email => i = j

\* C14: in every reachable state no two user records have the same email,
\* whatever the interleaving; a registration with an email some record of the
\* store already has is answered DuplicateResource and changes nothing.
C14_EmailUnique ==
    /\ []EmailsUnique
    /\ [][\A p \in Procs, email \in Emails, password \in Passwords :
            (/\ \E u \in UserIds : user_data_file[u].email = email
             /\ RegisterLoad(p, email, password)) =>
                /\ response' = "DuplicateResource"
                /\ user_data_file' = user_data_file
                /\ procs' = procs]_vars

\* Two users are registered and a third registration was turned down.
C14_Witness ==
    /\ response = "DuplicateResource"
    /\ Len(user_data_file) = 2
    /\ user_data_file[1].email # user_data_file[2].email

\* C15: a successful registration adds its own record under the id
\* count(existing users) + 1: when it is saved, that id is the next free one
\* of the store, the store grows by one record, and every record that was
\* there is still there under its id.
C15_RegistrationAddsRecord ==
    [][\A p \in Procs : Saves(p, "register_save") =>
        /\ procs[p].uid = Len(user_data_file) + 1
        /\ Len(user_data_file') = Len(user_data_file) + 1
        /\ \A u \in UserIds :
              user_data_file'[u].email = user_data_file[u].email]_vars

\* Process p completes a request that writes the file in this step.
SavesAny(p) == procs[p].pc # "idle" /\ procs'[p].pc = "idle" /\ user_data_file' # user_data_file

\* C16: a request made for one user changes no field of any other user's
\* record: when it writes the file, every other record of the store is
\* still there with the value it had.
C16_OnlyOwnRecord ==
    [][\A p \in Procs : SavesAny(p) =>
        \A u \in UserIds \ {procs[p].uid} :
            /\ u <= Len(user_data_file')
            /\ user_data_file'[u] = user_data_file[u]]_vars

\* C17: a stored last_passive_mine changes only when a successful mine of
\* that user is saved, to that mine's `now`, and never to an earlier time.
C17_MineTimeOnlyAdvances ==
    [][\A u \in UserIds :
        (/\ u <= Len(user_data_file')
         /\ user_data_file'[u].last_passive_mine
               # user_data_file[u].last_passive_mine) =>
            /\ \E p \in Procs :
                  /\ Saves(p, "mine_save")
                  /\ procs[p].uid = u
                  /\ user_data_file'[u].last_passive_mine = isoformat(procs[p].now)
            /\ fromisoformat(user_data_file'[u].last_passive_mine)
                  >= fromisoformat(user_data_file[u].last_passive_mine)]_vars

\* C18: a correct answer adds the reward to the balance, clears the pending
\* question and leaves next_quiz_attempt as it was, so that a fetch at that
\* moment is not on cooldown; an incorrect answer leaves the balance as it
\* was; and next_quiz_attempt changes only when an incorrect answer is saved.
C18_CorrectAnswerFrame ==
    [][\A p \in Procs :
        LET u == procs[p].uid IN
        /\ (Saves(p, "quiz_save") /\ procs[p].resp = "Correct") =>
              /\ user_data_file'[u].balance
                    = user_data_file[u].balance + procs[p].amount
              /\ ~HasKey(user_data_file'[u], "current_question")
              /\ user_data_file'[u].next_quiz_attempt
                    = user_data_file[u].next_quiz_attempt
              /\ clock >= fromisoformat(user_data_file'[u].next_quiz_attempt)
        /\ (Saves(p, "quiz_save") /\ procs[p].resp = "Incorrect") =>
              user_data_file'[u].balance = user_data_file[u].balance
        /\ (Saves(p, "quiz_save") /\ procs[p].resp # "Incorrect") =>
              user_data_file'[u].next_quiz_attempt
                    = user_data_file[u].next_quiz_attempt]_vars

\* The values of chosen_index that are absent or no integer.
NotAnInteger == {ChosenMissing, ChosenNotInt, ChosenTrue}

\* C19: an answer whose chosen_index is missing or not an integer is answered
\* InvalidInput if a question is pending, NoActiveQuestion if none is, and in
\* both cases writes nothing: question, balance and deadline stay as they are.
C19_BadIndexRejected ==
    [][\A p \in Procs :
        (/\ procs[p].pc = "quiz_load"
         /\ procs[p].method = "POST"
         /\ procs[p].chosen_index \in NotAnInteger
         /\ procs[p].uid \in UserIds
         /\ procs'[p] # procs[p]) =>
            /\ response' = IF HasKey(user_data_file[procs[p].uid], "current_question")
                           THEN "InvalidInput" ELSE "NoActiveQuestion"
            /\ procs'[p] = IdleProc
            /\ user_data_file' = user_data_file]_vars

\* The payload carries its three fields.
WellFormed(data) == data.keys = {"order_id", "payment_status", "pay_amount"}

\* C20: on the deposit path the store changes only when a confirmation with
\* status "finished" is processed: a well-formed confirmation with another
\* status is answered Pending and starts nothing, a credit is prepared only
\* for a finished one, and an invoice request, accepted or rejected, leaves
\* the store and the processes as they are.
C20_OnlyFinishedCredits ==
    [][\A p \in Procs :
        /\ \A data \in Payloads :
              /\ (WellFormed(data) /\ data.payment_status # "finished"
                    /\ WebhookLoad(p, data)) =>
                    /\ response' = "Pending"
                    /\ user_data_file' = user_data_file
                    /\ procs' = procs
              /\ (WebhookLoad(p, data) /\ procs'[p].pc = "webhook_save") =>
                    /\ WellFormed(data)
                    /\ data.payment_status = "finished"
                    /\ user_data_file' = user_data_file
        /\ \A session_token \in TokenInputs, amount \in FiatAmounts :
              deposit_command(p, session_token, amount) =>
                    /\ user_data_file' = user_data_file
                    /\ procs' = procs
        /\ user_data_file' # user_data_file => \E q \in Procs : Saves(q, "webhook_save")]_vars

\* A deposit was credited and a later confirmation that is not finished was
\* acknowledged as pending.
C20_Witness ==
    /\ response = "Pending"
    /\ delivered = {<<1, 2>>}
    /\ user_data_file[1].balance = 2

\* C21: a user whose next_quiz_attempt lies in the future has no pending
\* question, in every reachable state.
C21_PendingExcludesCooldown ==
    \A u \in UserIds :
        clock < fromisoformat(user_data_file[u].next_quiz_attempt) =>
            ~HasKey(user_data_file[u], "current_question")

\* C22: registration writes a record with balance 0 whose last_passive_mine
\* and next_quiz_attempt are the registration time; a mine request with the
\* token of a registration less than MINING_INTERVAL old is answered
\* OnCooldown and starts nothing; a quiz fetch that read a next_quiz_attempt
\* set by a registration is not on cooldown.
C22_NewUserCooling ==
    [][\A p \in Procs :
        /\ Saves(p, "register_save") =>
              LET rec == user_data_file'[procs[p].uid] IN
              /\ rec.balance = 0
              /\ rec.session_token = procs[p].token
              /\ rec.last_passive_mine = isoformat(procs[p].now)
              /\ rec.next_quiz_attempt = isoformat(procs[p].now)
        /\ \A session_token \in 1..MaxTokens :
              (/\ registered_at[session_token] # NoTime
               /\ clock - registered_at[session_token][1] < MINING_INTERVAL
               /\ Resolves(session_token)
               /\ MineAuth(p, session_token)) =>
                  /\ response' = "OnCooldown"
                  /\ procs' = procs
                  /\ user_data_file' = user_data_file
        /\ (/\ procs[p].pc = "quiz_load"
            /\ procs[p].method = "GET"
            /\ procs'[p] # procs[p]
            /\ \E t \in 1..MaxTokens :
                  /\ registered_at[t] # NoTime
                  /\ procs[p].next_quiz_attempt = isoformat(registered_at[t][1])) =>
              response' # "OnCooldown"]_vars

\* A mine request made one minute before the interval after the registration
\* was over has been turned down; the user's balance is still 0.
C22_Witness ==
    /\ response = "OnCooldown"
    /\ \E t \in 1..MaxTokens, u \in UserIds :
          /\ registered_at[t] # NoTime
          /\ clock - registered_at[t][1] = MINING_INTERVAL - 1
          /\ user_data_file[u].session_token = t
          /\ user_data_file[u].balance = 0
====
